---- MODULE Spec2Model ----
(***************************************************************************)
(* Model of src/assignment.py: the DCGAN training loop train(), the        *)
(* sampler test(), the noise source gen_noise() and the driver main()      *)
(* with its checkpoint manager and its error handler.                      *)
(*                                                                         *)
(* Model parameters are abstracted to version counters (the number of      *)
(* optimizer steps applied so far); a forward pass is recorded as the      *)
(* versions and inputs it was computed from.  Real numbers are kept as     *)
(* scaled integers or as numerator/denominator pairs.                      *)
(***************************************************************************)
EXTENDS Integers, Sequences, FiniteSets, TLC

(* ------------------------------ bounds --------------------------------- *)
MaxBatches == 501
MaxEpochs == 2
MaxGenUpdates == 2
MaxSaveEvery == 2
BatchSize == 2
PixelScale == 2
NoiseDraws == 2
MaxScore == 2
\* library faults are injected in the first MaxFaultIteration iterations
MaxFaultIteration == 2

(* -------------------------- program constants -------------------------- *)
\* manager = tf.train.CheckpointManager(..., max_to_keep=3)
max_to_keep == 3

\* if iteration % 500 == 0: fid_function(...)
FidEvery == 500

\* tf.random.uniform(..., minval=1, maxval=1)
minval == 1
maxval == 1

\* for iteration, batch in enumerate(pbar): the counter starts at 0
EnumerateStart == 0

(* ------------------------------ inputs --------------------------------- *)
\* lengths at which the dataset iterator may run out in an epoch
BatchCounts == {0, 1, 2, MaxBatches}
Modes == {"train", "test"}
\* scores the quality evaluator (an opaque oracle) may return
Scores == {0, MaxScore}
\* tanh output v = n / PixelScale, n in PixelVals, covers [-1, 1]
PixelVals == (-PixelScale)..PixelScale
\* the uniform variate u = k / NoiseDraws in [0, 1) behind one gen_noise()
Draws == 0..(NoiseDraws - 1)

Unbound == [unbound |-> TRUE]
NoError == [cls |-> "none", cause |-> "none"]
DeviceError == [cls |-> "RuntimeError", cause |-> "device"]
\* errors the libraries can raise inside train() or test()
BodyErrors ==
    { [cls |-> "RuntimeError", cause |-> "other"],
      [cls |-> "OSError", cause |-> "other"] }
ZeroDivisionError == [cls |-> "ZeroDivisionError", cause |-> "other"]
UnboundLocalError == [cls |-> "UnboundLocalError", cause |-> "other"]

VARIABLES
    mode, num_gen_updates, save_every, num_epochs,   \* args
    pc, err,                                         \* position in main(), error raised
    epoch, iteration,                                \* loop counters
    g_params, d_params,                              \* generator / discriminator weights (versions)
    draw, gen_input, gen_output,                     \* gen_noise() variate, latent batch, fake batch
    d_loss, d_grad,                                  \* train()'s local d_loss; loss behind the last disc. step
    total_fid, total_fid_n, fid_calls, avg_fid,      \* quality bookkeeping
    save_counter, ckpts, epoch_saves,                \* checkpoint manager
    img_pre, img, written                            \* test(): rescaled pixels, uint8 pixels, files written

vars == << mode, num_gen_updates, save_every, num_epochs, pc, err, epoch,
           iteration, g_params, d_params, draw, gen_input, gen_output,
           d_loss, d_grad, total_fid, total_fid_n, fid_calls, avg_fid,
           save_counter, ckpts, epoch_saves, img_pre, img, written >>

args == << mode, num_gen_updates, save_every, num_epochs >>
trainLocals == << iteration, draw, gen_input, gen_output, d_loss, d_grad,
                  total_fid, total_fid_n, fid_calls >>
models == << g_params, d_params >>
manager == << save_counter, ckpts, epoch_saves >>
testLocals == << img_pre, img, written >>

(* ---------------------------- pure helpers ----------------------------- *)
\* gen_noise(): every component is minval + u * (maxval - minval), kept in
\* units of 1 / NoiseDraws
gen_noise(k) == [latent |-> minval * NoiseDraws + k * (maxval - minval)]

\* enumerate(pbar) in a new call of train(): the index restarts, whatever
\* the index the previous epoch ended at (prev)
FirstIndex_carry(prev) == prev
FirstIndex(prev) == EnumerateStart

\* if iteration % args.num_gen_updates == 0
DiscDue_always(i, n) == TRUE
DiscDue(i, n) == i % n = 0

\* if iteration % args.save_every == 0
SaveDue(i, s) == i % s = 0

\* if iteration % 500 == 0
FidDue_always(i) == TRUE
FidDue(i) == i % FidEvery = 0

\* the generator weights the taped forward pass reads: those before the
\* iteration's apply_gradients (before), not those after it (after)
TapeParams_after(before, after) == after
TapeParams(before, after) == before

\* manager.save(): write checkpoint number n, keep the newest max_to_keep
Evict_newest(s) == IF Len(s) > max_to_keep THEN SubSeq(s, 1, max_to_keep) ELSE s
Evict(s) == IF Len(s) > max_to_keep THEN SubSeq(s, Len(s) - max_to_keep + 1, Len(s)) ELSE s
ManagerSave(s, n, g, d) == Evict(Append(s, [n |-> n, g |-> g, d |-> d]))

\* except RuntimeError as e: print(e)  -- anything else leaves main()
Catches(e) == e.cls = "RuntimeError"
Handled(e) == IF Catches(e) THEN "reported" ELSE "crashed"

\* img = ((img / 2) - 0.5) * 255, in units of 1 / (2 * PixelScale)
Rescale(n) == (n - PixelScale) * 255

TruncDiv(a, b) == IF a >= 0 THEN a \div b ELSE -((-a) \div b)
\* img.astype(np.uint8): truncation; an out-of-range float is undefined in
\* the C cast, builds either wrap modulo 256 or saturate
\* (sat chooses which)
AsUint8(x, sat) ==
    LET t == TruncDiv(x, 2 * PixelScale)
    IN  IF t >= 0 /\ t <= 255 THEN t
        ELSE IF sat THEN (IF t < 0 THEN 0 ELSE 255)
        ELSE t % 256

RECURSIVE SumScores(_)
SumScores(s) == IF s = << >> THEN 0 ELSE s[1].score + SumScores(Tail(s))

(* ------------------------------- Init ---------------------------------- *)
Init ==
    /\ mode \in Modes
    /\ num_gen_updates \in 1..MaxGenUpdates
    /\ save_every \in 1..MaxSaveEvery
    /\ num_epochs \in 1..MaxEpochs
    /\ pc = "start"
    /\ err = NoError
    /\ epoch = 0
    /\ iteration = 0
    /\ g_params = 0
    /\ d_params = 0
    /\ draw = 0
    /\ gen_input = Unbound
    /\ gen_output = Unbound
    /\ d_loss = Unbound
    /\ d_grad = Unbound
    /\ total_fid = 0
    /\ total_fid_n = 0
    /\ fid_calls = << >>
    /\ avg_fid = Unbound
    /\ save_counter = 0
    /\ ckpts = << >>
    /\ epoch_saves = 0
    /\ img_pre = << >>
    /\ img = << >>
    /\ written = 0

(* ------------------------------ main() --------------------------------- *)
Raise(e) ==
    /\ err' = e
    /\ pc' = Handled(e)

\* with tf.device("/device:" + args.device): the device is accepted
EnterDevice ==
    /\ pc = "start"
    /\ pc' = "main"
    /\ UNCHANGED << args, err, epoch, trainLocals, models, avg_fid, manager, testLocals >>

\* with tf.device(...): the device is invalid or unavailable
DeviceFault ==
    /\ pc = "start"
    /\ Raise(DeviceError)
    /\ UNCHANGED << args, epoch, trainLocals, models, avg_fid, manager, testLocals >>

\* for epoch in range(0, args.num_epochs): ... train(...) is entered
StartEpoch ==
    /\ pc = "main"
    /\ mode = "train"
    /\ epoch < num_epochs
    /\ pc' = "train"
    /\ iteration' = FirstIndex(iteration)
    /\ total_fid' = 0
    /\ total_fid_n' = 0
    /\ fid_calls' = << >>
    /\ draw' = 0
    /\ gen_input' = Unbound
    /\ gen_output' = Unbound
    /\ d_loss' = Unbound
    /\ d_grad' = Unbound
    /\ epoch_saves' = 0
    /\ UNCHANGED << args, err, epoch, models, avg_fid, save_counter, ckpts,
                    testLocals >>

\* one pass through the body of the for loop of train()
Iterate(k) ==
    /\ pc = "train"
    /\ iteration < MaxBatches
    /\ LET i == iteration
           z == gen_noise(k)
           batch == << epoch, i >>
           fwd_g == TapeParams(g_params, g_params + 1)
           out == [g |-> fwd_g, z |-> z]
           logits_fake == [d |-> d_params, x |-> out]
           logits_real == [d |-> d_params, x |-> batch]
           dl == IF DiscDue(i, num_gen_updates)
                    THEN [real |-> logits_real, fake |-> logits_fake]
                    ELSE d_loss
           g1 == g_params + 1
           d1 == IF DiscDue(i, num_gen_updates) THEN d_params + 1 ELSE d_params
           sc1 == IF SaveDue(i, save_every) THEN save_counter + 1 ELSE save_counter
       IN  /\ draw' = k
           /\ gen_input' = z
           /\ gen_output' = out
           /\ d_loss' = dl
           /\ IF dl = Unbound
                 THEN \* pbar.set_description reads d_loss before assignment
                      /\ Raise(UnboundLocalError)
                      /\ UNCHANGED << iteration, models, d_grad, total_fid,
                                      total_fid_n, fid_calls, manager >>
                 ELSE /\ g_params' = g1
                      /\ d_params' = d1
                      /\ d_grad' = IF DiscDue(i, num_gen_updates) THEN dl ELSE d_grad
                      /\ save_counter' = sc1
                      /\ ckpts' = IF SaveDue(i, save_every)
                                     THEN ManagerSave(ckpts, sc1, g1, d1)
                                     ELSE ckpts
                      /\ epoch_saves' = IF SaveDue(i, save_every)
                                           THEN epoch_saves + 1 ELSE epoch_saves
                      /\ IF FidDue(i)
                            THEN \E fid_ \in Scores :
                                 /\ total_fid' = total_fid + fid_
                                 /\ total_fid_n' = total_fid_n + 1
                                 /\ fid_calls' = Append(fid_calls,
                                        [i |-> i, real |-> batch, fake |-> out, score |-> fid_])
                            ELSE UNCHANGED << total_fid, total_fid_n, fid_calls >>
                      /\ iteration' = i + 1
                      /\ UNCHANGED << pc, err >>
    /\ UNCHANGED << args, epoch, avg_fid, testLocals >>

\* the iterator is exhausted: return total_fid / total_fid_n, then main()
\* prints the average and calls manager.save()
EndEpoch ==
    /\ pc = "train"
    /\ iteration \in BatchCounts
    /\ IF total_fid_n = 0
          THEN /\ Raise(ZeroDivisionError)
               /\ UNCHANGED << epoch, avg_fid, manager >>
          ELSE /\ avg_fid' = [num |-> total_fid, den |-> total_fid_n]
               /\ save_counter' = save_counter + 1
               /\ ckpts' = ManagerSave(ckpts, save_counter + 1, g_params, d_params)
               /\ epoch_saves' = epoch_saves + 1
               /\ epoch' = epoch + 1
               /\ pc' = "main"
               /\ UNCHANGED err
    /\ UNCHANGED << args, trainLocals, models, testLocals >>

\* a library call inside train() raises
TrainFault(e) ==
    /\ pc = "train"
    /\ iteration < MaxFaultIteration
    /\ Raise(e)
    /\ UNCHANGED << args, epoch, trainLocals, models, avg_fid, manager, testLocals >>

\* test(): one noise batch, one generator pass, rescale, astype(np.uint8)
Test ==
    /\ pc = "main"
    /\ mode = "test"
    /\ \E k \in Draws, px \in [1..BatchSize -> PixelVals], sat \in BOOLEAN :
          /\ draw' = k
          /\ gen_input' = gen_noise(k)
          /\ gen_output' = [g |-> g_params, z |-> gen_noise(k)]
          /\ img_pre' = [j \in 1..BatchSize |-> Rescale(px[j])]
          /\ img' = [j \in 1..BatchSize |-> AsUint8(Rescale(px[j]), sat)]
    /\ written' = 0
    /\ pc' = "writing"
    /\ UNCHANGED << args, err, epoch, iteration, models, d_loss, d_grad,
                    total_fid, total_fid_n, fid_calls, avg_fid, manager >>

\* imwrite(out_dir + "/" + str(i) + ".png", img[i])
WriteImage ==
    /\ pc = "writing"
    /\ written < BatchSize
    /\ written' = written + 1
    /\ UNCHANGED << args, pc, err, epoch, trainLocals, models, avg_fid,
                    manager, img_pre, img >>

\* a library call inside test() raises
TestFault(e) ==
    /\ \/ pc = "main" /\ mode = "test"
       \/ pc = "writing" /\ written < BatchSize
    /\ Raise(e)
    /\ UNCHANGED << args, epoch, trainLocals, models, avg_fid, manager, testLocals >>

\* main() falls off the end of the try block
Finish ==
    /\ pc \in {"main", "writing"}
    /\ \/ mode = "train" /\ pc = "main" /\ epoch = num_epochs
       \/ mode = "test" /\ pc = "writing" /\ written = BatchSize
    /\ pc' = "done"
    /\ UNCHANGED << args, err, epoch, trainLocals, models, avg_fid, manager, testLocals >>

Next ==
    \/ EnterDevice
    \/ DeviceFault
    \/ StartEpoch
    \/ \E k \in Draws : Iterate(k)
    \/ EndEpoch
    \/ \E e \in BodyErrors : TrainFault(e)
    \/ Test
    \/ WriteImage
    \/ \E e \in BodyErrors : TestFault(e)
    \/ Finish

Spec == Init /\ [][Next]_vars

(* ------------------------------ claims --------------------------------- *)
\* a step that completes one iteration of the loop of train()
IterationStep == pc = "train" /\ iteration' = iteration + 1

CeilDiv(a, b) == (a + b - 1) \div b

\* C1: in every iteration the generator parameters are updated, and the
\* discriminator parameters change if and only if
\* iteration mod num_gen_updates = 0.
C1_UpdateCadence ==
    [][ IterationStep =>
          /\ g_params' = g_params + 1
          /\ (d_params' # d_params) <=> (iteration % num_gen_updates = 0)
          /\ d_params' \in {d_params, d_params + 1} ]_vars

\* with num_gen_updates = 2, ten iterations have updated the discriminator
\* five times (after iterations 0, 2, 4, 6, 8) and the generator ten times
C1_Witness ==
    /\ pc = "train" /\ epoch = 0 /\ num_gen_updates = 2
    /\ iteration = 10 /\ g_params = 10 /\ d_params = 5

\* C2: an epoch that ends with total_fid_n = 0 is guarded: no division
\* fault is raised.
C2_EmptyEpochGuarded == err.cls # "ZeroDivisionError"

\* the loop of the current epoch has run out of batches
EpochOver ==
    \/ pc = "main" /\ epoch > 0
    \/ err.cls = "ZeroDivisionError"

\* C3: a save happens in exactly the iterations with
\* iteration mod save_every = 0, after that iteration's updates, and every
\* epoch of N iterations ends with one more save, ceil(N / save_every) + 1
\* saves in all.
C3_SaveSchedule ==
    /\ [][ IterationStep =>
             /\ (save_counter' = save_counter + 1) <=> (iteration % save_every = 0)
             /\ save_counter' \in {save_counter, save_counter + 1}
             /\ save_counter' # save_counter =>
                   /\ ckpts'[Len(ckpts')].g = g_params'
                   /\ ckpts'[Len(ckpts')].d = d_params' ]_vars
    /\ [](EpochOver => epoch_saves = CeilDiv(iteration, save_every) + 1)

\* C4: main() reports as non-fatal only an error caused by the compute
\* device; every other error leaves main().
C4_OnlyDeviceErrorCaught ==
    /\ pc = "reported" => err.cause = "device"
    /\ (err # NoError /\ err.cause # "device") => pc = "crashed"

\* C5: the rescaled value of every pixel lies in [0, 255] before the
\* conversion to unsigned bytes, so the byte written is that value
\* truncated, without wrap-around.
C5_RescaleInByteRange ==
    mode = "test" /\ pc \in {"writing", "done"} =>
        \A j \in 1..BatchSize :
            /\ 0 <= img_pre[j]
            /\ img_pre[j] <= 255 * 2 * PixelScale
            /\ img[j] = img_pre[j] \div (2 * PixelScale)

\* C6: the manager retains at most 3 checkpoints and they are the most
\* recently saved ones, the latest being the last one saved.
C6_Retention ==
    /\ Len(ckpts) <= 3
    /\ Len(ckpts) = IF save_counter < 3 THEN save_counter ELSE 3
    /\ \A j \in 1..Len(ckpts) : ckpts[j].n = save_counter - Len(ckpts) + j

\* after 5 saves the checkpoints 3, 4, 5 remain
C6_Witness ==
    /\ save_counter = 5
    /\ Len(ckpts) = 3
    /\ ckpts[1].n = 3 /\ ckpts[2].n = 4 /\ ckpts[3].n = 5

\* C7: two calls of gen_noise() whose uniform variates differ give
\* different latent batches.
C7_NoiseVaries ==
    [][ (gen_input # Unbound /\ gen_input' # Unbound /\ draw' # draw)
          => gen_input' # gen_input ]_vars

\* C8: the evaluator runs in exactly the iterations with
\* iteration mod 500 = 0, on that iteration's real and fake batch, other
\* iterations leave sum and count alone, and the value train() returns is
\* the sum of the sampled scores over their number.
C8_QualityMean ==
    /\ [][ IterationStep =>
             IF iteration % 500 = 0
                THEN /\ total_fid_n' = total_fid_n + 1
                     /\ Len(fid_calls') = Len(fid_calls) + 1
                     /\ LET c == fid_calls'[Len(fid_calls')]
                        IN  /\ c.i = iteration
                            /\ c.real = << epoch, iteration >>
                            /\ c.fake = gen_output'
                            /\ c.fake.z = gen_input'
                            /\ total_fid' = total_fid + c.score
                ELSE UNCHANGED << total_fid, total_fid_n, fid_calls >> ]_vars
    /\ [][ (pc = "train" /\ pc' = "main") =>
             avg_fid' = [num |-> SumScores(fid_calls), den |-> Len(fid_calls)] ]_vars
    /\ [](pc = "train" =>
             /\ total_fid = SumScores(fid_calls)
             /\ total_fid_n = Len(fid_calls)
             /\ total_fid_n = CeilDiv(iteration, 500))

\* an epoch of more than 500 iterations has returned the mean of two samples
C8_Witness ==
    /\ pc = "main" /\ epoch = 1 /\ iteration > 500
    /\ avg_fid = [num |-> MaxScore, den |-> 2]

\* C9: the forward pass of an iteration is recorded once, from the
\* parameters as they were before the iteration's updates; the generator
\* step follows, and a discriminator step uses the loss of that same pass.
C9_SinglePass ==
    [][ IterationStep =>
          /\ gen_output'.g = g_params
          /\ gen_output'.z = gen_input'
          /\ g_params' = g_params + 1
          /\ (iteration % num_gen_updates = 0) =>
                /\ d_grad' = d_loss'
                /\ d_loss'.fake = [d |-> d_params, x |-> gen_output']
                /\ d_loss'.real = [d |-> d_params, x |-> << epoch, iteration >>]
                /\ d_grad'.fake.x.g = g_params' - 1
          /\ (iteration % num_gen_updates # 0) => d_grad' = d_grad ]_vars

\* the third iteration (index 2) with num_gen_updates = 2: the discriminator
\* stepped on a loss computed from generator version 2, now at version 3
C9_Witness ==
    /\ pc = "train" /\ num_gen_updates = 2 /\ iteration = 3
    /\ g_params = 3 /\ d_params = 2
    /\ d_grad # Unbound /\ d_grad.fake.x.g = 2 /\ d_grad.fake.d = 1

\* C10: the first iteration of every epoch updates the discriminator, saves
\* and evaluates; so an epoch with a batch has total_fid_n >= 1 and d_loss
\* assigned before it is read, and the mean is undefined only for an epoch
\* without batches.
C10_FirstIteration ==
    /\ [][ (IterationStep /\ iteration = 0) =>
             /\ d_params' = d_params + 1
             /\ save_counter' = save_counter + 1
             /\ total_fid_n' = 1
             /\ d_loss' # Unbound ]_vars
    /\ []((pc = "train" /\ iteration >= 1) =>
             total_fid_n >= 1 /\ epoch_saves >= 1 /\ d_loss # Unbound)
    /\ [](err.cls # "UnboundLocalError")
    /\ [](err.cls = "ZeroDivisionError" => iteration = 0)

\* the first iteration of the second epoch has been processed
C10_Witness ==
    /\ pc = "train" /\ epoch = 1 /\ iteration = 1
    /\ num_gen_updates = 2 /\ save_every = 2
    /\ total_fid_n = 1 /\ epoch_saves = 1 /\ d_loss # Unbound

====
